---- MODULE Spec2Model ----
(***************************************************************************)
(* CLSAG ring signatures (CLSAG-GG and CLSAG-GGXG) of src/crypto/clsag.cpp *)
(* as a state machine: the two signers and the two verifiers, stepped      *)
(* through their source blocks, over a small abelian group of order        *)
(* Cofactor * L that stands for the curve.                                 *)
(***************************************************************************)
EXTENDS Integers, Sequences, FiniteSets, TLC

(***************************************************************************)
(* Bounds of the explored input space.                                     *)
(***************************************************************************)
MaxRing == 3
NumAlpha == 1
NumRVec == 2

(***************************************************************************)
(* Scalars and points (crypto-sugar: scalar_t, point_t).  A point is       *)
(* <<a, t>>: a is its component in the main subgroup of prime order L,     *)
(* t its component in the torsion subgroup of order Cofactor.              *)
(***************************************************************************)
L == 32749
Cofactor == 8

Scalars == 0 .. (L - 1)

c_scalar_1div8 == CHOOSE k \in Scalars : (8 * k) % L = 1

sc_add(a, b) == (a + b) % L
sc_sub(a, b) == (((a - b) % L) + L) % L
sc_mul(a, b) == (a * b) % L

c_point_0 == <<0, 0>>
c_point_G == <<1, 0>>
c_point_X == <<3, 0>>

pt_add(P, Q) == <<(P[1] + Q[1]) % L, (P[2] + Q[2]) % Cofactor>>
pt_sub(P, Q) == <<(((P[1] - Q[1]) % L) + L) % L, (((P[2] - Q[2]) % Cofactor) + Cofactor) % Cofactor>>
pt_mul(s, P) == <<(s * P[1]) % L, (s * P[2]) % Cofactor>>

modify_mul8(P) == pt_mul(8, P)

is_in_main_subgroup(P) == pt_mul(L, P) = c_point_0

\* canonical 32-byte encoding of a point and its decoding
to_public_key(P) == P[1] * Cofactor + P[2]
from_public_key(k) == <<k \div Cofactor, k % Cofactor>>

\* hash_helper_t::hp: hash of an encoded public key to a point of the main subgroup
hp(pk) == <<1 + (((pk % 4093) * (pk % 4093) + 7 * pk + 3) % (L - 1)), 0>>

(***************************************************************************)
(* hash_helper_t::hs_t.  The transcript is the sequence of items absorbed  *)
(* since the last finalization; a finalization hashes exactly these items  *)
(* and leaves the transcript empty.                                        *)
(***************************************************************************)
HashMod == 999983
HashMul == 1999

RECURSIVE cn_fast_hash_from(_, _, _)
cn_fast_hash_from(items, k, h) ==
  IF k > Len(items) THEN h
  ELSE cn_fast_hash_from(items, k + 1, (h * HashMul + items[k] + 1) % HashMod)

cn_fast_hash(items) == cn_fast_hash_from(items, 1, Len(items) + 17)

calc_hash_no_reduce(items) == cn_fast_hash(items)
calc_hash(items) == cn_fast_hash(items) % L
hs_cleared(items) == <<>>

CRYPTO_HDS_CLSAG_GG_LAYER_0 == 900001
CRYPTO_HDS_CLSAG_GG_LAYER_1 == 900002
CRYPTO_HDS_CLSAG_GG_CHALLENGE == 900003
CRYPTO_HDS_CLSAG_GGXG_LAYER_0 == 900004
CRYPTO_HDS_CLSAG_GGXG_LAYER_1 == 900005
CRYPTO_HDS_CLSAG_GGXG_LAYER_2 == 900006
CRYPTO_HDS_CLSAG_GGXG_LAYER_3 == 900007
CRYPTO_HDS_CLSAG_GGXG_CHALLENGE == 900008

(***************************************************************************)
(* Pure pieces of the four functions.                                      *)
(***************************************************************************)
\* ring[i] for a 0-based index; an index past the end reads whatever lies there
OutOfRangeElement == [stealth_address |-> 0, amount_commitment |-> 0, concealing_point |-> 0]
ring_at(ring, i) == IF i < Len(ring) THEN ring[i + 1] ELSE OutOfRangeElement

\* variant: the index check admits secret_index = ring_size
generate_precheck_off_by_one(ring_size, secret_index) ==
  IF ~(ring_size > 0) THEN "ring size is zero"
  ELSE IF ~(secret_index <= ring_size) THEN "secret_index is out of range"
  ELSE "ok"

\* the signers' first two checks
generate_precheck(ring_size, secret_index) ==
  IF ~(ring_size > 0) THEN "ring size is zero"
  ELSE IF ~(secret_index < ring_size) THEN "secret_index is out of range"
  ELSE "ok"

\* variant: the key image is only required to be in the main subgroup
generate_ki_check_subgroup_only(key_image, ki) ==
  IF is_in_main_subgroup(from_public_key(ki)) THEN "ok" ELSE "key image 0 mismatch"
\* variant: the key image is not compared
generate_ki_check_skipped(key_image, ki) == "ok"

\* the signers' key image check
generate_ki_check(key_image, ki) ==
  IF key_image = from_public_key(ki) THEN "ok" ELSE "key image 0 mismatch"

\* K_j / 8 as stored in the signature, and K_j as used by the signer
K_div8(secret, ki_base) == pt_mul(sc_mul(c_scalar_1div8, secret), ki_base)
K_of_div8(Kd8) == modify_mul8(Kd8)

\* variant: the stored value is used without mul8
K_of_sig_without_mul8(K) == from_public_key(K)

\* the verifiers' use of a stored K_j
K_of_sig(K) == modify_mul8(from_public_key(K))

\* variants: the subgroup check is missing
verify_GG_precheck_without_subgroup(ring_size, r_size, ki) ==
  IF ~(ring_size > 0) THEN "ring size is zero"
  ELSE IF ~(ring_size = r_size) THEN "ring size != r size"
  ELSE "ok"

verify_GGXG_precheck_without_subgroup(ring_size, r_g_size, r_x_size, ki) ==
  IF ~(ring_size > 0) THEN "ring size is zero"
  ELSE IF ~(ring_size = r_g_size) THEN "ring size != r_g size"
  ELSE IF ~(ring_size = r_x_size) THEN "ring size != r_x size"
  ELSE "ok"

\* the verifiers' checks, in order
verify_GG_precheck(ring_size, r_size, ki) ==
  IF ~(ring_size > 0) THEN "ring size is zero"
  ELSE IF ~(ring_size = r_size) THEN "ring size != r size"
  ELSE IF ~is_in_main_subgroup(from_public_key(ki)) THEN "key image 0 does not belong to the main subgroup"
  ELSE "ok"

verify_GGXG_precheck(ring_size, r_g_size, r_x_size, ki) ==
  IF ~(ring_size > 0) THEN "ring size is zero"
  ELSE IF ~(ring_size = r_g_size) THEN "ring size != r_g size"
  ELSE IF ~(ring_size = r_x_size) THEN "ring size != r_x size"
  ELSE IF ~is_in_main_subgroup(from_public_key(ki)) THEN "key image 0 does not belong to the main subgroup"
  ELSE "ok"

\* items of the input transcript
RECURSIVE GG_ring_items(_, _)
GG_ring_items(ring, k) ==
  IF k > Len(ring) THEN <<>>
  ELSE <<ring[k].stealth_address, ring[k].amount_commitment>> \o GG_ring_items(ring, k + 1)

RECURSIVE GGXG_ring_items(_, _)
GGXG_ring_items(ring, k) ==
  IF k > Len(ring) THEN <<>>
  ELSE <<ring[k].stealth_address, ring[k].amount_commitment, ring[k].concealing_point>>
       \o GGXG_ring_items(ring, k + 1)

\* variant: the signer absorbs C' at full scale
generate_GG_input_items_full_scale(m, ring, pseudo_out_amount_commitment, ki) ==
  <<m>> \o GG_ring_items(ring, 1) \o <<to_public_key(pseudo_out_amount_commitment), ki>>
generate_GG_input_items(m, ring, pseudo_out_amount_commitment, ki) ==
  <<m>> \o GG_ring_items(ring, 1)
    \o <<to_public_key(pt_mul(c_scalar_1div8, pseudo_out_amount_commitment)), ki>>

verify_GG_input_items(m, ring, pseudo_out_amount_commitment, ki) ==
  <<m>> \o GG_ring_items(ring, 1) \o <<pseudo_out_amount_commitment, ki>>

generate_GGXG_input_items(m, ring, pseudo_out_amount_commitment, extended_amount_commitment, ki) ==
  <<m>> \o GGXG_ring_items(ring, 1)
    \o <<to_public_key(pt_mul(c_scalar_1div8, pseudo_out_amount_commitment)),
         to_public_key(pt_mul(c_scalar_1div8, extended_amount_commitment)), ki>>

verify_GGXG_input_items(m, ring, pseudo_out_amount_commitment, extended_amount_commitment, ki) ==
  <<m>> \o GGXG_ring_items(ring, 1)
    \o <<pseudo_out_amount_commitment, extended_amount_commitment, ki>>

layer_items(tag, input_hash) == <<tag, input_hash>>

\* aggregate public keys, secrets and key images
GG_W_pub_key(agg_coeff_0, agg_coeff_1, e, C_pt) ==
  pt_add(pt_mul(agg_coeff_0, from_public_key(e.stealth_address)),
         pt_mul(agg_coeff_1, pt_sub(modify_mul8(from_public_key(e.amount_commitment)), C_pt)))

GG_w_sec_key(agg_coeff_0, agg_coeff_1, secret_x, secret_f) ==
  sc_add(sc_mul(agg_coeff_0, secret_x), sc_mul(agg_coeff_1, secret_f))

\* variant: K1 enters the aggregate with the layer 0 coefficient
GG_W_key_image_one_coefficient(agg_coeff_0, agg_coeff_1, key_image, K1) ==
  pt_add(pt_mul(agg_coeff_0, key_image), pt_mul(agg_coeff_0, K1))
GG_W_key_image(agg_coeff_0, agg_coeff_1, key_image, K1) ==
  pt_add(pt_mul(agg_coeff_0, key_image), pt_mul(agg_coeff_1, K1))

GGXG_A_i(e) == modify_mul8(from_public_key(e.amount_commitment))
GGXG_Q_i(e) == modify_mul8(from_public_key(e.concealing_point))

GGXG_W_pub_key_g(agg_coeff_0, agg_coeff_1, agg_coeff_3, e, C_pt) ==
  pt_add(pt_add(pt_mul(agg_coeff_0, from_public_key(e.stealth_address)),
                pt_mul(agg_coeff_1, pt_sub(GGXG_A_i(e), C_pt))),
         pt_mul(agg_coeff_3, GGXG_Q_i(e)))

GGXG_W_pub_key_x(agg_coeff_2, e, T_pt) ==
  pt_mul(agg_coeff_2, pt_sub(pt_sub(T_pt, GGXG_A_i(e)), GGXG_Q_i(e)))

GGXG_w_sec_key_g(agg_coeff_0, agg_coeff_1, agg_coeff_3, secret_0_xp, secret_1_f, secret_3_q) ==
  sc_add(sc_add(sc_mul(agg_coeff_0, secret_0_xp), sc_mul(agg_coeff_1, secret_1_f)),
         sc_mul(agg_coeff_3, secret_3_q))

\* variant: the layer 2 secret is added to its coefficient
GGXG_w_sec_key_x_added(agg_coeff_2, secret_2_x) == sc_add(agg_coeff_2, secret_2_x)

GGXG_w_sec_key_x(agg_coeff_2, secret_2_x) == sc_mul(agg_coeff_2, secret_2_x)

\* variant: the layer 3 key image enters the aggregate shifted by G
GGXG_W_key_image_g_shifted(agg_coeff_0, agg_coeff_1, agg_coeff_3, key_image, K1, K3) ==
  pt_add(pt_add(pt_mul(agg_coeff_0, key_image), pt_mul(agg_coeff_1, K1)),
         pt_mul(agg_coeff_3, pt_add(K3, c_point_G)))
GGXG_W_key_image_g(agg_coeff_0, agg_coeff_1, agg_coeff_3, key_image, K1, K3) ==
  pt_add(pt_add(pt_mul(agg_coeff_0, key_image), pt_mul(agg_coeff_1, K1)),
         pt_mul(agg_coeff_3, K3))

GGXG_W_key_image_x(agg_coeff_2, K2) == pt_mul(agg_coeff_2, K2)

\* items absorbed for one challenge
GG_initial_items(input_hash, alpha, ki_base) ==
  <<CRYPTO_HDS_CLSAG_GG_CHALLENGE, input_hash,
    to_public_key(pt_mul(alpha, c_point_G)),
    to_public_key(pt_mul(alpha, ki_base))>>

\* variant: input_hash is not absorbed for a challenge
GG_challenge_items_without_input_hash(input_hash, r_i, c_prev, W_pub_key, stealth_address, W_key_image) ==
  <<CRYPTO_HDS_CLSAG_GG_CHALLENGE,
    to_public_key(pt_add(pt_mul(r_i, c_point_G), pt_mul(c_prev, W_pub_key))),
    to_public_key(pt_add(pt_mul(r_i, hp(stealth_address)), pt_mul(c_prev, W_key_image)))>>
GG_challenge_items(input_hash, r_i, c_prev, W_pub_key, stealth_address, W_key_image) ==
  <<CRYPTO_HDS_CLSAG_GG_CHALLENGE, input_hash,
    to_public_key(pt_add(pt_mul(r_i, c_point_G), pt_mul(c_prev, W_pub_key))),
    to_public_key(pt_add(pt_mul(r_i, hp(stealth_address)), pt_mul(c_prev, W_key_image)))>>

GGXG_initial_items(input_hash, alpha_g, alpha_x, ki_base) ==
  <<CRYPTO_HDS_CLSAG_GGXG_CHALLENGE, input_hash,
    to_public_key(pt_mul(alpha_g, c_point_G)),
    to_public_key(pt_mul(alpha_g, ki_base)),
    to_public_key(pt_mul(alpha_x, c_point_X)),
    to_public_key(pt_mul(alpha_x, ki_base))>>

GGXG_challenge_items(input_hash, r_g_i, r_x_i, c_prev, W_pub_key_g, W_pub_key_x, stealth_address, W_key_image_g, W_key_image_x) ==
  <<CRYPTO_HDS_CLSAG_GGXG_CHALLENGE, input_hash,
    to_public_key(pt_add(pt_mul(r_g_i, c_point_G), pt_mul(c_prev, W_pub_key_g))),
    to_public_key(pt_add(pt_mul(r_g_i, hp(stealth_address)), pt_mul(c_prev, W_key_image_g))),
    to_public_key(pt_add(pt_mul(r_x_i, c_point_X), pt_mul(c_prev, W_pub_key_x))),
    to_public_key(pt_add(pt_mul(r_x_i, hp(stealth_address)), pt_mul(c_prev, W_key_image_x)))>>

\* the signers' walk: first index, number of iterations, next index
\* variant: the walk starts at the secret index itself
walk_first_at_secret(secret_index, ring_size) == secret_index % ring_size
walk_first(secret_index, ring_size) == (secret_index + 1) % ring_size
\* variant: one iteration too many
walk_iterations_off_by_one(ring_size) == ring_size
walk_iterations(ring_size) == ring_size - 1
\* variant: the walk steps backwards
walk_next_backwards(i, ring_size) == (i + ring_size - 1) % ring_size
walk_next(i, ring_size) == (i + 1) % ring_size

\* variant: the sign of c * w is wrong
close_response_added(alpha, c_prev, w_sec_key) == sc_add(alpha, sc_mul(c_prev, w_sec_key))

\* the response that closes the ring
close_response(alpha, c_prev, w_sec_key) == sc_sub(alpha, sc_mul(c_prev, w_sec_key))

\* variant: sig.r.clear() is missing
fresh_responses_without_clear(old_r, sampled) == old_r \o sampled

\* the response vector after sig.r.clear() and ring_size calls of emplace_back
fresh_responses(old_r, sampled) == sampled

\* the verifiers' final comparison
verify_result(c_prev, c) == IF c_prev = c THEN "true" ELSE "false"

(***************************************************************************)
(* State.                                                                  *)
(***************************************************************************)
VARIABLES
  scheme,      \* "GG" or "GGXG": the pair of functions the caller uses
  sa,          \* arguments of the generate_ call
  va,          \* arguments of the verify_ call
  sig,         \* the caller's signature object
  sig_entry,   \* what the signature object held before the first call
  pc,          \* position in the running function
  sg,          \* locals of the generate_ call
  vf,          \* locals of the verify_ call
  sign_ret,    \* how the generate_ call ended
  verify_ret,  \* how the verify_ call ended
  rng_calls,   \* number of scalar_t::random() calls made
  ring_reads,  \* indices used to subscript ring in the generate_ call
  tampered,    \* the argument or signature field changed after an accepted verification
  prev         \* the previous successful generate_CLSAG_GG call

vars == <<scheme, sa, va, sig, sig_entry, pc, sg, vf, sign_ret, verify_ret,
          rng_calls, ring_reads, tampered, prev>>

(***************************************************************************)
(* Inputs the caller may supply.                                           *)
(***************************************************************************)
Secrets1 == [secret_0_xp |-> 5, secret_1_f |-> 7, secret_2_x |-> 11, secret_3_q |-> 13]
Secrets2 == [secret_0_xp |-> 5, secret_1_f |-> 9, secret_2_x |-> 11, secret_3_q |-> 13]
Secrets3 == [secret_0_xp |-> 6, secret_1_f |-> 7, secret_2_x |-> 11, secret_3_q |-> 13]
SecretPool == {Secrets1, Secrets2, Secrets3}

PseudoOut == <<20, 0>>
PseudoOutPool == {PseudoOut}

\* the ring member whose public keys belong to the secrets s, for pseudo output C
OwnedElement(s, C) ==
  [stealth_address |-> to_public_key(pt_mul(s.secret_0_xp, c_point_G)),
   amount_commitment |->
     to_public_key(pt_mul(c_scalar_1div8, pt_add(pt_mul(s.secret_1_f, c_point_G), C))),
   concealing_point |->
     to_public_key(pt_mul(c_scalar_1div8, pt_mul(s.secret_3_q, c_point_G)))]

\* the extended amount commitment that balances the member owned by s
ExtendedFor(s, C) ==
  pt_add(pt_mul(s.secret_2_x, c_point_X),
         pt_add(pt_add(pt_mul(s.secret_1_f, c_point_G), C), pt_mul(s.secret_3_q, c_point_G)))

ExtendedPool == {ExtendedFor(Secrets1, PseudoOut), ExtendedFor(Secrets2, PseudoOut)}

DecoyElement ==
  [stealth_address |-> to_public_key(<<77, 1>>),
   amount_commitment |-> to_public_key(<<88, 2>>),
   concealing_point |-> to_public_key(<<99, 0>>)]

ElementPool ==
  {OwnedElement(Secrets1, PseudoOut), OwnedElement(Secrets2, PseudoOut), DecoyElement}

RECURSIVE RingsOfSize(_)
RingsOfSize(n) ==
  IF n = 0 THEN {<<>>}
  ELSE {Append(r, e) : r \in RingsOfSize(n - 1), e \in ElementPool}

RingPool == UNION {RingsOfSize(n) : n \in 0 .. MaxRing}

KiPool ==
  {to_public_key(pt_mul(5, hp(OwnedElement(Secrets1, PseudoOut).stealth_address))),
   to_public_key(pt_mul(6, hp(OwnedElement(Secrets1, PseudoOut).stealth_address))),
   to_public_key(pt_mul(5, hp(DecoyElement.stealth_address))),
   to_public_key(pt_add(pt_mul(5, hp(OwnedElement(Secrets1, PseudoOut).stealth_address)), <<0, 4>>))}

MsgPool == {41}
OtherMsg == 42

EmptySig == [c |-> 0, r |-> <<>>, r_g |-> <<>>, r_x |-> <<>>, K1 |-> 0, K2 |-> 0, K3 |-> 0]
StaleSigPool ==
  {EmptySig,
   [c |-> 3, r |-> <<1, 2>>, r_g |-> <<1, 2>>, r_x |-> <<4>>, K1 |-> 17, K2 |-> 18, K3 |-> 19],
   [c |-> 3, r |-> <<1>>, r_g |-> <<1>>, r_x |-> <<4>>, K1 |-> 17, K2 |-> 18, K3 |-> 19]}

\* values scalar_t::random() may return
AlphaPool == {[g |-> (100 + 37 * k) % L, x |-> (150 + 41 * k) % L] : k \in 1 .. NumAlpha}
ResponsePool(n) ==
  {[g |-> [i \in 1 .. n |-> (200 * k + 31 * i) % L],
    x |-> [i \in 1 .. n |-> (300 * k + 29 * i) % L]] : k \in 1 .. NumRVec}

NoPoint == c_point_0
NoFrame ==
  [ring_size |-> 0, ki_base |-> NoPoint, key_image |-> NoPoint,
   K1 |-> NoPoint, K2 |-> NoPoint, K3 |-> NoPoint,
   C_pt |-> NoPoint, T_pt |-> NoPoint,
   input_hash |-> -1, agg_coeff_0 |-> -1, agg_coeff_1 |-> -1, agg_coeff_2 |-> -1, agg_coeff_3 |-> -1,
   W_pub_keys |-> <<>>, W_pub_keys_g |-> <<>>, W_pub_keys_x |-> <<>>,
   w_sec_key |-> -1, w_sec_key_g |-> -1, w_sec_key_x |-> -1,
   W_key_image |-> NoPoint, W_key_image_g |-> NoPoint, W_key_image_x |-> NoPoint,
   alpha |-> -1, alpha_g |-> -1, alpha_x |-> -1,
   c_prev |-> -1, i |-> 0, j |-> 0,
   hsc |-> <<>>, hlog |-> <<>>, visited |-> <<>>, c_writes |-> 0,
   entered |-> <<>>, sampled |-> [g |-> <<>>, x |-> <<>>]]

NoPrev ==
  [set |-> FALSE, secret_x |-> 0, secret_f |-> 0, secret_index |-> 0, stealth_address |-> 0, ki |-> 0]

NoRet == [ret |-> "none", msg |-> ""]
Threw(msg) == [ret |-> "throw", msg |-> msg]
Returned(v) == [ret |-> v, msg |-> ""]

\* the arguments verify_ receives for a signature made from the arguments a
VerifyArgsFor(a) ==
  [m |-> a.m, ring |-> a.ring,
   pseudo_out_amount_commitment |->
     to_public_key(pt_mul(c_scalar_1div8, a.pseudo_out_amount_commitment)),
   extended_amount_commitment |->
     to_public_key(pt_mul(c_scalar_1div8, a.extended_amount_commitment)),
   ki |-> a.ki]

SignArgs ==
  {[m |-> mm, ring |-> rr, pseudo_out_amount_commitment |-> cc,
    extended_amount_commitment |-> tt, ki |-> kk,
    secret_0_xp |-> ss.secret_0_xp, secret_1_f |-> ss.secret_1_f,
    secret_2_x |-> ss.secret_2_x, secret_3_q |-> ss.secret_3_q, secret_index |-> ii] :
     mm \in MsgPool, rr \in RingPool, cc \in PseudoOutPool, tt \in ExtendedPool, kk \in KiPool,
     ss \in SecretPool, ii \in 0 .. MaxRing}

Init ==
  /\ scheme \in {"GG", "GGXG"}
  /\ sa \in SignArgs
  /\ scheme = "GG" => sa.extended_amount_commitment = ExtendedFor(Secrets1, PseudoOut)
  /\ va = VerifyArgsFor(sa)
  /\ sig \in StaleSigPool
  /\ sig_entry = sig
  /\ pc = "start"
  /\ sg = NoFrame
  /\ vf = NoFrame
  /\ sign_ret = NoRet
  /\ verify_ret = NoRet
  /\ rng_calls = 0
  /\ ring_reads = {}
  /\ tampered = "none"
  /\ prev = NoPrev

\* one finalization: the items hashed and the transcript left behind
hs_absorb(hsc, items) == hsc \o items

(***************************************************************************)
(* generate_CLSAG_GG                                                       *)
(***************************************************************************)
generate_CLSAG_GG_check ==
  /\ pc = "start" /\ scheme = "GG"
  /\ LET ring_size == Len(sa.ring)
         pre == generate_precheck(ring_size, sa.secret_index)
         ki_base == hp(ring_at(sa.ring, sa.secret_index).stealth_address)
         key_image == pt_mul(sa.secret_0_xp, ki_base)
         post == generate_ki_check(key_image, sa.ki)
     IN IF pre # "ok"
        THEN /\ sign_ret' = Threw(pre) /\ pc' = "s_done"
             /\ sg' = [NoFrame EXCEPT !.ring_size = ring_size]
             /\ UNCHANGED ring_reads
        ELSE /\ ring_reads' = ring_reads \cup {sa.secret_index}
             /\ sg' = [NoFrame EXCEPT !.ring_size = ring_size, !.ki_base = ki_base,
                                      !.key_image = key_image]
             /\ IF post # "ok"
                THEN sign_ret' = Threw(post) /\ pc' = "s_done"
                ELSE sign_ret' = NoRet /\ pc' = "s_keyimages"
  /\ UNCHANGED <<scheme, sa, va, sig, sig_entry, vf, verify_ret, rng_calls, tampered, prev>>

generate_CLSAG_GG_keyimages ==
  /\ pc = "s_keyimages" /\ scheme = "GG"
  /\ LET K1_div8 == K_div8(sa.secret_1_f, sg.ki_base)
     IN /\ sig' = [sig EXCEPT !.K1 = to_public_key(K1_div8)]
        /\ sg' = [sg EXCEPT !.K1 = K_of_div8(K1_div8)]
  /\ pc' = "s_coefficients"
  /\ UNCHANGED <<scheme, sa, va, sig_entry, vf, sign_ret, verify_ret, rng_calls,
                 ring_reads, tampered, prev>>

generate_CLSAG_GG_coefficients ==
  /\ pc = "s_coefficients" /\ scheme = "GG"
  /\ LET h0 == hs_absorb(sg.hsc, generate_GG_input_items(sa.m, sa.ring,
                                   sa.pseudo_out_amount_commitment, sa.ki))
         input_hash == calc_hash_no_reduce(h0)
         h1 == hs_absorb(hs_cleared(h0), layer_items(CRYPTO_HDS_CLSAG_GG_LAYER_0, input_hash))
         agg_coeff_0 == calc_hash(h1)
         h2 == hs_absorb(hs_cleared(h1), layer_items(CRYPTO_HDS_CLSAG_GG_LAYER_1, input_hash))
         agg_coeff_1 == calc_hash(h2)
     IN sg' = [sg EXCEPT !.input_hash = input_hash, !.agg_coeff_0 = agg_coeff_0,
                         !.agg_coeff_1 = agg_coeff_1, !.hsc = hs_cleared(h2),
                         !.hlog = sg.hlog \o <<h0, h1, h2>>]
  /\ pc' = "s_aggregate"
  /\ UNCHANGED <<scheme, sa, va, sig, sig_entry, vf, sign_ret, verify_ret, rng_calls,
                 ring_reads, tampered, prev>>

generate_CLSAG_GG_aggregate ==
  /\ pc = "s_aggregate" /\ scheme = "GG"
  /\ sg' = [sg EXCEPT
       !.W_pub_keys = [k \in 1 .. sg.ring_size |->
                         GG_W_pub_key(sg.agg_coeff_0, sg.agg_coeff_1, sa.ring[k],
                                      sa.pseudo_out_amount_commitment)],
       !.w_sec_key = GG_w_sec_key(sg.agg_coeff_0, sg.agg_coeff_1, sa.secret_0_xp, sa.secret_1_f),
       !.W_key_image = GG_W_key_image(sg.agg_coeff_0, sg.agg_coeff_1, sg.key_image, sg.K1)]
  /\ pc' = "s_commit"
  /\ UNCHANGED <<scheme, sa, va, sig, sig_entry, vf, sign_ret, verify_ret, rng_calls,
                 ring_reads, tampered, prev>>

generate_CLSAG_GG_commit ==
  /\ pc = "s_commit" /\ scheme = "GG"
  /\ \E a \in AlphaPool :
       LET h == hs_absorb(sg.hsc, GG_initial_items(sg.input_hash, a.g, sg.ki_base))
       IN sg' = [sg EXCEPT !.alpha = a.g, !.c_prev = calc_hash(h), !.hsc = hs_cleared(h),
                           !.hlog = Append(sg.hlog, h)]
  /\ rng_calls' = rng_calls + 1
  /\ pc' = "s_sample"
  /\ UNCHANGED <<scheme, sa, va, sig, sig_entry, vf, sign_ret, verify_ret,
                 ring_reads, tampered, prev>>

generate_CLSAG_GG_sample ==
  /\ pc = "s_sample" /\ scheme = "GG"
  /\ \E rv \in ResponsePool(sg.ring_size) :
       /\ sig' = [sig EXCEPT !.r = fresh_responses(sig.r, rv.g)]
       /\ sg' = [sg EXCEPT !.j = 0, !.i = walk_first(sa.secret_index, sg.ring_size),
                           !.sampled = [g |-> rv.g, x |-> <<>>]]
  /\ rng_calls' = rng_calls + sg.ring_size
  /\ pc' = "s_walk"
  /\ UNCHANGED <<scheme, sa, va, sig_entry, vf, sign_ret, verify_ret,
                 ring_reads, tampered, prev>>

generate_CLSAG_GG_walk ==
  /\ pc = "s_walk" /\ scheme = "GG"
  /\ sg.j < walk_iterations(sg.ring_size)
  /\ LET i == sg.i
         h == hs_absorb(sg.hsc,
                GG_challenge_items(sg.input_hash, sig.r[i + 1], sg.c_prev, sg.W_pub_keys[i + 1],
                                   ring_at(sa.ring, i).stealth_address, sg.W_key_image))
     IN /\ sig' = IF i = 0 THEN [sig EXCEPT !.c = sg.c_prev] ELSE sig
        /\ sg' = [sg EXCEPT !.c_prev = calc_hash(h), !.hsc = hs_cleared(h),
                            !.hlog = Append(sg.hlog, h),
                            !.visited = Append(sg.visited, i),
                            !.entered = Append(sg.entered, [i |-> i, c |-> sg.c_prev]),
                            !.c_writes = IF i = 0 THEN sg.c_writes + 1 ELSE sg.c_writes,
                            !.j = sg.j + 1, !.i = walk_next(i, sg.ring_size)]
        /\ ring_reads' = ring_reads \cup {i}
  /\ UNCHANGED <<scheme, sa, va, sig_entry, pc, vf, sign_ret, verify_ret, rng_calls,
                 tampered, prev>>

generate_CLSAG_GG_close ==
  /\ pc = "s_walk" /\ scheme = "GG"
  /\ ~(sg.j < walk_iterations(sg.ring_size))
  /\ LET c == IF sa.secret_index = 0 THEN sg.c_prev ELSE sig.c
     IN sig' = [sig EXCEPT !.c = c,
                           !.r[sa.secret_index + 1] =
                              close_response(sg.alpha, sg.c_prev, sg.w_sec_key)]
  /\ sg' = [sg EXCEPT !.c_writes = IF sa.secret_index = 0 THEN sg.c_writes + 1 ELSE sg.c_writes,
                      !.entered = Append(sg.entered, [i |-> sa.secret_index, c |-> sg.c_prev])]
  /\ sign_ret' = Returned("true")
  /\ pc' = "s_done"
  /\ UNCHANGED <<scheme, sa, va, sig_entry, vf, verify_ret, rng_calls, ring_reads,
                 tampered, prev>>

(***************************************************************************)
(* verify_CLSAG_GG                                                         *)
(***************************************************************************)
\* the caller verifies the signature object it holds: as it stands, after a
\* successful generate_ call, or after changing one input
VerifyEntry ==
  \/ pc = "start"
  \/ pc = "s_done" /\ sign_ret.ret = "true"
  \/ pc = "v_again"

verify_CLSAG_GG_check ==
  /\ VerifyEntry /\ scheme = "GG"
  /\ LET ring_size == Len(va.ring)
         pre == verify_GG_precheck(ring_size, Len(sig.r), va.ki)
     IN /\ vf' = [NoFrame EXCEPT !.ring_size = ring_size,
                                 !.key_image = IF pre = "ok" THEN from_public_key(va.ki)
                                               ELSE NoPoint]
        /\ IF pre # "ok"
           THEN verify_ret' = Threw(pre) /\ pc' = "v_done"
           ELSE verify_ret' = NoRet /\ pc' = "v_coefficients"
  /\ UNCHANGED <<scheme, sa, va, sig, sig_entry, sg, sign_ret, rng_calls, ring_reads,
                 tampered, prev>>

verify_CLSAG_GG_coefficients ==
  /\ pc = "v_coefficients" /\ scheme = "GG"
  /\ LET h0 == hs_absorb(vf.hsc, verify_GG_input_items(va.m, va.ring,
                                   va.pseudo_out_amount_commitment, va.ki))
         input_hash == calc_hash_no_reduce(h0)
         h1 == hs_absorb(hs_cleared(h0), layer_items(CRYPTO_HDS_CLSAG_GG_LAYER_0, input_hash))
         agg_coeff_0 == calc_hash(h1)
         h2 == hs_absorb(hs_cleared(h1), layer_items(CRYPTO_HDS_CLSAG_GG_LAYER_1, input_hash))
         agg_coeff_1 == calc_hash(h2)
     IN vf' = [vf EXCEPT !.C_pt = modify_mul8(from_public_key(va.pseudo_out_amount_commitment)),
                         !.input_hash = input_hash, !.agg_coeff_0 = agg_coeff_0,
                         !.agg_coeff_1 = agg_coeff_1, !.hsc = hs_cleared(h2),
                         !.hlog = vf.hlog \o <<h0, h1, h2>>]
  /\ pc' = "v_aggregate"
  /\ UNCHANGED <<scheme, sa, va, sig, sig_entry, sg, sign_ret, verify_ret, rng_calls,
                 ring_reads, tampered, prev>>

verify_CLSAG_GG_aggregate ==
  /\ pc = "v_aggregate" /\ scheme = "GG"
  /\ vf' = [vf EXCEPT
       !.W_pub_keys = [k \in 1 .. vf.ring_size |->
                         GG_W_pub_key(vf.agg_coeff_0, vf.agg_coeff_1, va.ring[k], vf.C_pt)],
       !.K1 = K_of_sig(sig.K1),
       !.W_key_image = GG_W_key_image(vf.agg_coeff_0, vf.agg_coeff_1, vf.key_image,
                                      K_of_sig(sig.K1)),
       !.c_prev = sig.c, !.i = 0]
  /\ pc' = "v_walk"
  /\ UNCHANGED <<scheme, sa, va, sig, sig_entry, sg, sign_ret, verify_ret, rng_calls,
                 ring_reads, tampered, prev>>

verify_CLSAG_GG_walk ==
  /\ pc = "v_walk" /\ scheme = "GG"
  /\ vf.i < vf.ring_size
  /\ LET i == vf.i
         h == hs_absorb(vf.hsc,
                GG_challenge_items(vf.input_hash, sig.r[i + 1], vf.c_prev, vf.W_pub_keys[i + 1],
                                   va.ring[i + 1].stealth_address, vf.W_key_image))
     IN vf' = [vf EXCEPT !.c_prev = calc_hash(h), !.hsc = hs_cleared(h),
                         !.hlog = Append(vf.hlog, h),
                         !.visited = Append(vf.visited, i),
                         !.entered = Append(vf.entered, [i |-> i, c |-> vf.c_prev]),
                         !.i = i + 1]
  /\ UNCHANGED <<scheme, sa, va, sig, sig_entry, pc, sg, sign_ret, verify_ret, rng_calls,
                 ring_reads, tampered, prev>>

verify_CLSAG_GG_return ==
  /\ pc = "v_walk" /\ scheme = "GG"
  /\ ~(vf.i < vf.ring_size)
  /\ verify_ret' = Returned(verify_result(vf.c_prev, sig.c))
  /\ pc' = "v_done"
  /\ UNCHANGED <<scheme, sa, va, sig, sig_entry, sg, vf, sign_ret, rng_calls, ring_reads,
                 tampered, prev>>

(***************************************************************************)
(* generate_CLSAG_GGXG                                                     *)
(***************************************************************************)
generate_CLSAG_GGXG_check ==
  /\ pc = "start" /\ scheme = "GGXG"
  /\ LET ring_size == Len(sa.ring)
         pre == generate_precheck(ring_size, sa.secret_index)
         ki_base == hp(ring_at(sa.ring, sa.secret_index).stealth_address)
         key_image == pt_mul(sa.secret_0_xp, ki_base)
         post == generate_ki_check(key_image, sa.ki)
     IN IF pre # "ok"
        THEN /\ sign_ret' = Threw(pre) /\ pc' = "s_done"
             /\ sg' = [NoFrame EXCEPT !.ring_size = ring_size]
             /\ UNCHANGED ring_reads
        ELSE /\ ring_reads' = ring_reads \cup {sa.secret_index}
             /\ sg' = [NoFrame EXCEPT !.ring_size = ring_size, !.ki_base = ki_base,
                                      !.key_image = key_image]
             /\ IF post # "ok"
                THEN sign_ret' = Threw(post) /\ pc' = "s_done"
                ELSE sign_ret' = NoRet /\ pc' = "s_keyimages"
  /\ UNCHANGED <<scheme, sa, va, sig, sig_entry, vf, verify_ret, rng_calls, tampered, prev>>

generate_CLSAG_GGXG_keyimages ==
  /\ pc = "s_keyimages" /\ scheme = "GGXG"
  /\ LET K1_div8 == K_div8(sa.secret_1_f, sg.ki_base)
         K2_div8 == K_div8(sa.secret_2_x, sg.ki_base)
         K3_div8 == K_div8(sa.secret_3_q, sg.ki_base)
     IN /\ sig' = [sig EXCEPT !.K1 = to_public_key(K1_div8), !.K2 = to_public_key(K2_div8),
                              !.K3 = to_public_key(K3_div8)]
        /\ sg' = [sg EXCEPT !.K1 = K_of_div8(K1_div8), !.K2 = K_of_div8(K2_div8),
                            !.K3 = K_of_div8(K3_div8)]
  /\ pc' = "s_coefficients"
  /\ UNCHANGED <<scheme, sa, va, sig_entry, vf, sign_ret, verify_ret, rng_calls,
                 ring_reads, tampered, prev>>

generate_CLSAG_GGXG_coefficients ==
  /\ pc = "s_coefficients" /\ scheme = "GGXG"
  /\ LET h0 == hs_absorb(sg.hsc, generate_GGXG_input_items(sa.m, sa.ring,
                   sa.pseudo_out_amount_commitment, sa.extended_amount_commitment, sa.ki))
         input_hash == calc_hash_no_reduce(h0)
         h1 == hs_absorb(hs_cleared(h0), layer_items(CRYPTO_HDS_CLSAG_GGXG_LAYER_0, input_hash))
         h2 == hs_absorb(hs_cleared(h1), layer_items(CRYPTO_HDS_CLSAG_GGXG_LAYER_1, input_hash))
         h3 == hs_absorb(hs_cleared(h2), layer_items(CRYPTO_HDS_CLSAG_GGXG_LAYER_2, input_hash))
         h4 == hs_absorb(hs_cleared(h3), layer_items(CRYPTO_HDS_CLSAG_GGXG_LAYER_3, input_hash))
     IN sg' = [sg EXCEPT !.input_hash = input_hash,
                         !.agg_coeff_0 = calc_hash(h1), !.agg_coeff_1 = calc_hash(h2),
                         !.agg_coeff_2 = calc_hash(h3), !.agg_coeff_3 = calc_hash(h4),
                         !.hsc = hs_cleared(h4),
                         !.hlog = sg.hlog \o <<h0, h1, h2, h3, h4>>]
  /\ pc' = "s_aggregate"
  /\ UNCHANGED <<scheme, sa, va, sig, sig_entry, vf, sign_ret, verify_ret, rng_calls,
                 ring_reads, tampered, prev>>

generate_CLSAG_GGXG_aggregate ==
  /\ pc = "s_aggregate" /\ scheme = "GGXG"
  /\ sg' = [sg EXCEPT
       !.W_pub_keys_g = [k \in 1 .. sg.ring_size |->
                           GGXG_W_pub_key_g(sg.agg_coeff_0, sg.agg_coeff_1, sg.agg_coeff_3,
                                            sa.ring[k], sa.pseudo_out_amount_commitment)],
       !.W_pub_keys_x = [k \in 1 .. sg.ring_size |->
                           GGXG_W_pub_key_x(sg.agg_coeff_2, sa.ring[k],
                                            sa.extended_amount_commitment)],
       !.w_sec_key_g = GGXG_w_sec_key_g(sg.agg_coeff_0, sg.agg_coeff_1, sg.agg_coeff_3,
                                        sa.secret_0_xp, sa.secret_1_f, sa.secret_3_q),
       !.w_sec_key_x = GGXG_w_sec_key_x(sg.agg_coeff_2, sa.secret_2_x),
       !.W_key_image_g = GGXG_W_key_image_g(sg.agg_coeff_0, sg.agg_coeff_1, sg.agg_coeff_3,
                                            sg.key_image, sg.K1, sg.K3),
       !.W_key_image_x = GGXG_W_key_image_x(sg.agg_coeff_2, sg.K2)]
  /\ pc' = "s_commit"
  /\ UNCHANGED <<scheme, sa, va, sig, sig_entry, vf, sign_ret, verify_ret, rng_calls,
                 ring_reads, tampered, prev>>

generate_CLSAG_GGXG_commit ==
  /\ pc = "s_commit" /\ scheme = "GGXG"
  /\ \E a \in AlphaPool :
       LET h == hs_absorb(sg.hsc, GGXG_initial_items(sg.input_hash, a.g, a.x, sg.ki_base))
       IN sg' = [sg EXCEPT !.alpha_g = a.g, !.alpha_x = a.x, !.c_prev = calc_hash(h),
                           !.hsc = hs_cleared(h), !.hlog = Append(sg.hlog, h)]
  /\ rng_calls' = rng_calls + 2
  /\ pc' = "s_sample"
  /\ UNCHANGED <<scheme, sa, va, sig, sig_entry, vf, sign_ret, verify_ret,
                 ring_reads, tampered, prev>>

generate_CLSAG_GGXG_sample ==
  /\ pc = "s_sample" /\ scheme = "GGXG"
  /\ \E rv \in ResponsePool(sg.ring_size) :
       /\ sig' = [sig EXCEPT !.r_g = fresh_responses(sig.r_g, rv.g),
                             !.r_x = fresh_responses(sig.r_x, rv.x)]
       /\ sg' = [sg EXCEPT !.j = 0, !.i = walk_first(sa.secret_index, sg.ring_size),
                           !.sampled = [g |-> rv.g, x |-> rv.x]]
  /\ rng_calls' = rng_calls + 2 * sg.ring_size
  /\ pc' = "s_walk"
  /\ UNCHANGED <<scheme, sa, va, sig_entry, vf, sign_ret, verify_ret,
                 ring_reads, tampered, prev>>

generate_CLSAG_GGXG_walk ==
  /\ pc = "s_walk" /\ scheme = "GGXG"
  /\ sg.j < walk_iterations(sg.ring_size)
  /\ LET i == sg.i
         h == hs_absorb(sg.hsc,
                GGXG_challenge_items(sg.input_hash, sig.r_g[i + 1], sig.r_x[i + 1], sg.c_prev,
                                     sg.W_pub_keys_g[i + 1], sg.W_pub_keys_x[i + 1],
                                     ring_at(sa.ring, i).stealth_address,
                                     sg.W_key_image_g, sg.W_key_image_x))
     IN /\ sig' = IF i = 0 THEN [sig EXCEPT !.c = sg.c_prev] ELSE sig
        /\ sg' = [sg EXCEPT !.c_prev = calc_hash(h), !.hsc = hs_cleared(h),
                            !.hlog = Append(sg.hlog, h),
                            !.visited = Append(sg.visited, i),
                            !.entered = Append(sg.entered, [i |-> i, c |-> sg.c_prev]),
                            !.c_writes = IF i = 0 THEN sg.c_writes + 1 ELSE sg.c_writes,
                            !.j = sg.j + 1, !.i = walk_next(i, sg.ring_size)]
        /\ ring_reads' = ring_reads \cup {i}
  /\ UNCHANGED <<scheme, sa, va, sig_entry, pc, vf, sign_ret, verify_ret, rng_calls,
                 tampered, prev>>

generate_CLSAG_GGXG_close ==
  /\ pc = "s_walk" /\ scheme = "GGXG"
  /\ ~(sg.j < walk_iterations(sg.ring_size))
  /\ LET c == IF sa.secret_index = 0 THEN sg.c_prev ELSE sig.c
     IN sig' = [sig EXCEPT !.c = c,
                           !.r_g[sa.secret_index + 1] =
                              close_response(sg.alpha_g, sg.c_prev, sg.w_sec_key_g),
                           !.r_x[sa.secret_index + 1] =
                              close_response(sg.alpha_x, sg.c_prev, sg.w_sec_key_x)]
  /\ sg' = [sg EXCEPT !.c_writes = IF sa.secret_index = 0 THEN sg.c_writes + 1 ELSE sg.c_writes,
                      !.entered = Append(sg.entered, [i |-> sa.secret_index, c |-> sg.c_prev])]
  /\ sign_ret' = Returned("true")
  /\ pc' = "s_done"
  /\ UNCHANGED <<scheme, sa, va, sig_entry, vf, verify_ret, rng_calls, ring_reads,
                 tampered, prev>>

(***************************************************************************)
(* verify_CLSAG_GGXG                                                       *)
(***************************************************************************)
verify_CLSAG_GGXG_check ==
  /\ VerifyEntry /\ scheme = "GGXG"
  /\ LET ring_size == Len(va.ring)
         pre == verify_GGXG_precheck(ring_size, Len(sig.r_g), Len(sig.r_x), va.ki)
     IN /\ vf' = [NoFrame EXCEPT !.ring_size = ring_size,
                                 !.key_image = IF pre = "ok" THEN from_public_key(va.ki)
                                               ELSE NoPoint]
        /\ IF pre # "ok"
           THEN verify_ret' = Threw(pre) /\ pc' = "v_done"
           ELSE verify_ret' = NoRet /\ pc' = "v_coefficients"
  /\ UNCHANGED <<scheme, sa, va, sig, sig_entry, sg, sign_ret, rng_calls, ring_reads,
                 tampered, prev>>

verify_CLSAG_GGXG_coefficients ==
  /\ pc = "v_coefficients" /\ scheme = "GGXG"
  /\ LET h0 == hs_absorb(vf.hsc, verify_GGXG_input_items(va.m, va.ring,
                   va.pseudo_out_amount_commitment, va.extended_amount_commitment, va.ki))
         input_hash == calc_hash_no_reduce(h0)
         h1 == hs_absorb(hs_cleared(h0), layer_items(CRYPTO_HDS_CLSAG_GGXG_LAYER_0, input_hash))
         h2 == hs_absorb(hs_cleared(h1), layer_items(CRYPTO_HDS_CLSAG_GGXG_LAYER_1, input_hash))
         h3 == hs_absorb(hs_cleared(h2), layer_items(CRYPTO_HDS_CLSAG_GGXG_LAYER_2, input_hash))
         h4 == hs_absorb(hs_cleared(h3), layer_items(CRYPTO_HDS_CLSAG_GGXG_LAYER_3, input_hash))
     IN vf' = [vf EXCEPT !.C_pt = modify_mul8(from_public_key(va.pseudo_out_amount_commitment)),
                         !.T_pt = modify_mul8(from_public_key(va.extended_amount_commitment)),
                         !.input_hash = input_hash,
                         !.agg_coeff_0 = calc_hash(h1), !.agg_coeff_1 = calc_hash(h2),
                         !.agg_coeff_2 = calc_hash(h3), !.agg_coeff_3 = calc_hash(h4),
                         !.hsc = hs_cleared(h4),
                         !.hlog = vf.hlog \o <<h0, h1, h2, h3, h4>>]
  /\ pc' = "v_aggregate"
  /\ UNCHANGED <<scheme, sa, va, sig, sig_entry, sg, sign_ret, verify_ret, rng_calls,
                 ring_reads, tampered, prev>>

verify_CLSAG_GGXG_aggregate ==
  /\ pc = "v_aggregate" /\ scheme = "GGXG"
  /\ vf' = [vf EXCEPT
       !.W_pub_keys_g = [k \in 1 .. vf.ring_size |->
                           GGXG_W_pub_key_g(vf.agg_coeff_0, vf.agg_coeff_1, vf.agg_coeff_3,
                                            va.ring[k], vf.C_pt)],
       !.W_pub_keys_x = [k \in 1 .. vf.ring_size |->
                           GGXG_W_pub_key_x(vf.agg_coeff_2, va.ring[k], vf.T_pt)],
       !.K1 = K_of_sig(sig.K1), !.K2 = K_of_sig(sig.K2), !.K3 = K_of_sig(sig.K3),
       !.W_key_image_g = GGXG_W_key_image_g(vf.agg_coeff_0, vf.agg_coeff_1, vf.agg_coeff_3,
                                            vf.key_image, K_of_sig(sig.K1), K_of_sig(sig.K3)),
       !.W_key_image_x = GGXG_W_key_image_x(vf.agg_coeff_2, K_of_sig(sig.K2)),
       !.c_prev = sig.c, !.i = 0]
  /\ pc' = "v_walk"
  /\ UNCHANGED <<scheme, sa, va, sig, sig_entry, sg, sign_ret, verify_ret, rng_calls,
                 ring_reads, tampered, prev>>

verify_CLSAG_GGXG_walk ==
  /\ pc = "v_walk" /\ scheme = "GGXG"
  /\ vf.i < vf.ring_size
  /\ LET i == vf.i
         h == hs_absorb(vf.hsc,
                GGXG_challenge_items(vf.input_hash, sig.r_g[i + 1], sig.r_x[i + 1], vf.c_prev,
                                     vf.W_pub_keys_g[i + 1], vf.W_pub_keys_x[i + 1],
                                     va.ring[i + 1].stealth_address,
                                     vf.W_key_image_g, vf.W_key_image_x))
     IN vf' = [vf EXCEPT !.c_prev = calc_hash(h), !.hsc = hs_cleared(h),
                         !.hlog = Append(vf.hlog, h),
                         !.visited = Append(vf.visited, i),
                         !.entered = Append(vf.entered, [i |-> i, c |-> vf.c_prev]),
                         !.i = i + 1]
  /\ UNCHANGED <<scheme, sa, va, sig, sig_entry, pc, sg, sign_ret, verify_ret, rng_calls,
                 ring_reads, tampered, prev>>

verify_CLSAG_GGXG_return ==
  /\ pc = "v_walk" /\ scheme = "GGXG"
  /\ ~(vf.i < vf.ring_size)
  /\ verify_ret' = Returned(verify_result(vf.c_prev, sig.c))
  /\ pc' = "v_done"
  /\ UNCHANGED <<scheme, sa, va, sig, sig_entry, sg, vf, sign_ret, rng_calls, ring_reads,
                 tampered, prev>>

(***************************************************************************)
(* One generate_ call and the verification of the caller's signature.      *)
(***************************************************************************)
Next ==
  \/ generate_CLSAG_GG_check
  \/ generate_CLSAG_GG_keyimages
  \/ generate_CLSAG_GG_coefficients
  \/ generate_CLSAG_GG_aggregate
  \/ generate_CLSAG_GG_commit
  \/ generate_CLSAG_GG_sample
  \/ generate_CLSAG_GG_walk
  \/ generate_CLSAG_GG_close
  \/ verify_CLSAG_GG_check
  \/ verify_CLSAG_GG_coefficients
  \/ verify_CLSAG_GG_aggregate
  \/ verify_CLSAG_GG_walk
  \/ verify_CLSAG_GG_return
  \/ generate_CLSAG_GGXG_check
  \/ generate_CLSAG_GGXG_keyimages
  \/ generate_CLSAG_GGXG_coefficients
  \/ generate_CLSAG_GGXG_aggregate
  \/ generate_CLSAG_GGXG_commit
  \/ generate_CLSAG_GGXG_sample
  \/ generate_CLSAG_GGXG_walk
  \/ generate_CLSAG_GGXG_close
  \/ verify_CLSAG_GGXG_check
  \/ verify_CLSAG_GGXG_coefficients
  \/ verify_CLSAG_GGXG_aggregate
  \/ verify_CLSAG_GGXG_walk
  \/ verify_CLSAG_GGXG_return

Spec == Init /\ [][Next]_vars

(***************************************************************************)
(* A second generate_CLSAG_GG call by the same caller, with new arguments  *)
(* and a fresh signature object.                                           *)
(***************************************************************************)
NoArgs ==
  [m |-> 0, ring |-> <<>>, pseudo_out_amount_commitment |-> PseudoOut,
   extended_amount_commitment |-> ExtendedFor(Secrets1, PseudoOut), ki |-> 0,
   secret_0_xp |-> 0, secret_1_f |-> 0, secret_2_x |-> 0, secret_3_q |-> 0, secret_index |-> 0]

\* the caller notes the key image of a successful call and drops the rest
KeepKeyImage ==
  /\ pc = "s_done" /\ scheme = "GG" /\ sign_ret.ret = "true" /\ ~prev.set
  /\ prev' = [set |-> TRUE, secret_x |-> sa.secret_0_xp, secret_f |-> sa.secret_1_f,
              secret_index |-> sa.secret_index,
              stealth_address |-> sa.ring[sa.secret_index + 1].stealth_address,
              ki |-> sa.ki]
  /\ sa' = NoArgs
  /\ va' = VerifyArgsFor(NoArgs)
  /\ sig' = sig_entry
  /\ pc' = "kept"
  /\ sg' = NoFrame
  /\ sign_ret' = NoRet
  /\ rng_calls' = 0
  /\ ring_reads' = {}
  /\ UNCHANGED <<scheme, sig_entry, vf, verify_ret, tampered>>

SignAgain ==
  /\ pc = "kept"
  /\ sa' \in {a \in SignArgs : a.extended_amount_commitment = sa.extended_amount_commitment}
  /\ va' = VerifyArgsFor(sa')
  /\ pc' = "start"
  /\ UNCHANGED <<scheme, sig, sig_entry, sg, vf, sign_ret, verify_ret, rng_calls,
                 ring_reads, tampered, prev>>

InitLink == Init /\ scheme = "GG" /\ sig = EmptySig

NextLink ==
  \/ generate_CLSAG_GG_check
  \/ generate_CLSAG_GG_keyimages
  \/ generate_CLSAG_GG_coefficients
  \/ generate_CLSAG_GG_aggregate
  \/ generate_CLSAG_GG_commit
  \/ generate_CLSAG_GG_sample
  \/ generate_CLSAG_GG_walk
  \/ generate_CLSAG_GG_close
  \/ KeepKeyImage
  \/ SignAgain

SpecLink == InitLink /\ [][NextLink]_vars

(***************************************************************************)
(* After an accepted verification the caller changes one argument or one   *)
(* field of the signature and verifies again.                              *)
(***************************************************************************)
Accepted == pc = "v_done" /\ verify_ret.ret = "true" /\ tampered = "none"

\* other encodings: the point moved by G, and the point moved by a point of order 2
ShiftedByG(k) == to_public_key(pt_add(from_public_key(k), c_point_G))
ShiftedByTorsion(k) == to_public_key(pt_add(from_public_key(k), <<0, 4>>))

Reverify(what) ==
  /\ tampered' = what
  /\ pc' = "v_again"
  /\ UNCHANGED <<scheme, sa, sig_entry, sg, vf, sign_ret, verify_ret, rng_calls,
                 ring_reads, prev>>

Tamper_m ==
  /\ Accepted
  /\ va' = [va EXCEPT !.m = OtherMsg]
  /\ UNCHANGED sig
  /\ Reverify("m")

Tamper_ring_field ==
  /\ Accepted
  /\ \E k \in 1 .. Len(va.ring) :
       \/ va' = [va EXCEPT !.ring[k].stealth_address = ShiftedByTorsion(@)]
       \/ va' = [va EXCEPT !.ring[k].amount_commitment = ShiftedByTorsion(@)]
       \/ scheme = "GGXG" /\ va' = [va EXCEPT !.ring[k].concealing_point = ShiftedByTorsion(@)]
  /\ UNCHANGED sig
  /\ Reverify("ring")

Tamper_ring_swap ==
  /\ Accepted
  /\ \E k \in 1 .. Len(va.ring), l \in 1 .. Len(va.ring) :
       /\ k < l /\ va.ring[k] # va.ring[l]
       /\ va' = [va EXCEPT !.ring[k] = va.ring[l], !.ring[l] = va.ring[k]]
  /\ UNCHANGED sig
  /\ Reverify("swap")

Tamper_pseudo_out ==
  /\ Accepted
  /\ \/ va' = [va EXCEPT !.pseudo_out_amount_commitment = ShiftedByG(@)]
     \/ va' = [va EXCEPT !.pseudo_out_amount_commitment = ShiftedByTorsion(@)]
  /\ UNCHANGED sig
  /\ Reverify("C")

Tamper_extended ==
  /\ Accepted /\ scheme = "GGXG"
  /\ \/ va' = [va EXCEPT !.extended_amount_commitment = ShiftedByTorsion(@)]
     \/ va' = [va EXCEPT !.extended_amount_commitment = va.pseudo_out_amount_commitment]
  /\ UNCHANGED sig
  /\ Reverify("T")

Tamper_ki ==
  /\ Accepted
  /\ \/ va' = [va EXCEPT !.ki = ShiftedByG(@)]
     \/ va' = [va EXCEPT !.ki = ShiftedByTorsion(@)]
  /\ UNCHANGED sig
  /\ Reverify("ki")

Tamper_sig_c ==
  /\ Accepted
  /\ sig' = [sig EXCEPT !.c = sc_add(@, 1)]
  /\ UNCHANGED va
  /\ Reverify("c")

Tamper_sig_r ==
  /\ Accepted
  /\ \E k \in 1 .. Len(va.ring) :
       \/ scheme = "GG" /\ sig' = [sig EXCEPT !.r[k] = sc_add(@, 1)]
       \/ scheme = "GGXG" /\ sig' = [sig EXCEPT !.r_g[k] = sc_add(@, 1)]
       \/ scheme = "GGXG" /\ sig' = [sig EXCEPT !.r_x[k] = sc_add(@, 1)]
  /\ UNCHANGED va
  /\ Reverify("r")

Tamper_sig_K ==
  /\ Accepted
  /\ \/ sig' = [sig EXCEPT !.K1 = ShiftedByG(@)]
     \/ scheme = "GGXG" /\ sig' = [sig EXCEPT !.K2 = ShiftedByG(@)]
     \/ scheme = "GGXG" /\ sig' = [sig EXCEPT !.K3 = ShiftedByG(@)]
     \/ scheme = "GGXG" /\ sig.K2 # sig.K3 /\ sig' = [sig EXCEPT !.K2 = sig.K3, !.K3 = sig.K2]
  /\ UNCHANGED va
  /\ Reverify("K")

Tamper_sig_K_torsion ==
  /\ Accepted
  /\ \/ sig' = [sig EXCEPT !.K1 = ShiftedByTorsion(@)]
     \/ scheme = "GGXG" /\ sig' = [sig EXCEPT !.K2 = ShiftedByTorsion(@)]
     \/ scheme = "GGXG" /\ sig' = [sig EXCEPT !.K3 = ShiftedByTorsion(@)]
  /\ UNCHANGED va
  /\ Reverify("K torsion")

\* the ring member at the secret index holds the public keys of the secrets
ArgsKeysMatch(a, sch) ==
  /\ a.secret_index < Len(a.ring)
  /\ LET e == a.ring[a.secret_index + 1]
     IN /\ from_public_key(e.stealth_address) = pt_mul(a.secret_0_xp, c_point_G)
        /\ pt_sub(modify_mul8(from_public_key(e.amount_commitment)),
                  a.pseudo_out_amount_commitment) = pt_mul(a.secret_1_f, c_point_G)
        /\ sch = "GGXG" =>
             /\ modify_mul8(from_public_key(e.concealing_point)) = pt_mul(a.secret_3_q, c_point_G)
             /\ pt_sub(pt_sub(a.extended_amount_commitment,
                              modify_mul8(from_public_key(e.amount_commitment))),
                       modify_mul8(from_public_key(e.concealing_point)))
                  = pt_mul(a.secret_2_x, c_point_X)

InitTamper == Init /\ sig = EmptySig /\ ArgsKeysMatch(sa, scheme)

NextTamper ==
  \/ Next
  \/ Tamper_m
  \/ Tamper_ring_field
  \/ Tamper_ring_swap
  \/ Tamper_pseudo_out
  \/ Tamper_extended
  \/ Tamper_ki
  \/ Tamper_sig_c
  \/ Tamper_sig_r
  \/ Tamper_sig_K
  \/ Tamper_sig_K_torsion

SpecTamper == InitTamper /\ [][NextTamper]_vars

(***************************************************************************)
(* The caller's choice of encoding for the commitments it hands to verify_: *)
(* 1/8 of the signer's point, or the signer's point itself.                *)
(***************************************************************************)
FullScaleArgsFor(a) ==
  [VerifyArgsFor(a) EXCEPT
     !.pseudo_out_amount_commitment = to_public_key(a.pseudo_out_amount_commitment),
     !.extended_amount_commitment = to_public_key(a.extended_amount_commitment)]

\* commitments the signer may hold: of the main subgroup, with a small-order
\* component, and the identity
EncodingPseudoOutPool == {PseudoOut, pt_add(PseudoOut, <<0, 4>>), c_point_0}
EncodingExtendedPool == {ExtendedFor(Secrets1, PseudoOut), c_point_0}

EncodingSignArgs ==
  {[a EXCEPT !.pseudo_out_amount_commitment = cc, !.extended_amount_commitment = tt] :
     a \in {b \in SignArgs : b.secret_0_xp = Secrets1.secret_0_xp
                             /\ b.secret_1_f = Secrets1.secret_1_f
                             /\ b.extended_amount_commitment = ExtendedFor(Secrets1, PseudoOut)},
     cc \in EncodingPseudoOutPool, tt \in EncodingExtendedPool}

InitEncoding ==
  /\ scheme \in {"GG", "GGXG"}
  /\ sa \in EncodingSignArgs
  /\ scheme = "GG" => sa.extended_amount_commitment = ExtendedFor(Secrets1, PseudoOut)
  /\ va \in {VerifyArgsFor(sa), FullScaleArgsFor(sa)}
  /\ sig = EmptySig
  /\ sig_entry = sig
  /\ pc = "start"
  /\ sg = NoFrame
  /\ vf = NoFrame
  /\ sign_ret = NoRet
  /\ verify_ret = NoRet
  /\ rng_calls = 0
  /\ ring_reads = {}
  /\ tampered = "none"
  /\ prev = NoPrev

SpecEncoding == InitEncoding /\ [][Next]_vars

(***************************************************************************)
(* Properties.                                                             *)
(***************************************************************************)
SignerRunning ==
  pc \in {"s_keyimages", "s_coefficients", "s_aggregate", "s_commit", "s_sample", "s_walk"}
Signed == sign_ret.ret = "true"
Verified == pc = "v_done" /\ tampered = "none"
SecretElement == sa.ring[sa.secret_index + 1]

C3_TamperRejected ==
  (pc = "v_done" /\ tampered # "none") => verify_ret.ret # "true"

\* C4: two successful generate_CLSAG_GG calls with the same secret_x and the same
\* stealth address at their secret index were given the same key image.
C4_Linkability ==
  (prev.set /\ pc = "s_done" /\ Signed
     /\ prev.secret_x = sa.secret_0_xp
     /\ prev.stealth_address = SecretElement.stealth_address)
  => prev.ki = sa.ki

C4_Witness ==
  /\ prev.set /\ pc = "s_done" /\ Signed
  /\ prev.secret_x = sa.secret_0_xp
  /\ prev.stealth_address = SecretElement.stealth_address
  /\ prev.secret_f # sa.secret_1_f
  /\ prev.secret_index # sa.secret_index
  /\ prev.ki = sa.ki

\* what the verify_ call was given
VerifyRingSize == Len(va.ring)
VerifySizesMatch ==
  IF scheme = "GG" THEN Len(sig.r) = VerifyRingSize
  ELSE Len(sig.r_g) = VerifyRingSize /\ Len(sig.r_x) = VerifyRingSize
VerifyKiInSubgroup == from_public_key(va.ki)[2] = 0
VerifyBreach == VerifyRingSize = 0 \/ ~VerifySizesMatch \/ ~VerifyKiInSubgroup

\* C5 as stated: on an empty ring, a response vector of the wrong length or a key image
\* outside the main subgroup the verifiers return false and do not raise.
C5_Stated ==
  (pc = "v_done" /\ VerifyBreach) => verify_ret.ret = "false"

\* C5: the verifiers never accept on a precondition breach: an empty ring, a response
\* vector of the wrong length and a key image outside the main subgroup each end the
\* call by a raised error, in this order of precedence; the value false is returned
\* only after the whole ring walk, on a final challenge mismatch.
C5_FailureMode ==
  pc = "v_done" =>
    /\ VerifyRingSize = 0 => verify_ret = [ret |-> "throw", msg |-> "ring size is zero"]
    /\ (VerifyRingSize > 0 /\ ~VerifySizesMatch) =>
         /\ verify_ret.ret = "throw"
         /\ verify_ret.msg \in {"ring size != r size", "ring size != r_g size", "ring size != r_x size"}
    /\ (VerifyRingSize > 0 /\ VerifySizesMatch /\ ~VerifyKiInSubgroup) =>
         verify_ret = [ret |-> "throw",
                       msg |-> "key image 0 does not belong to the main subgroup"]
    /\ ~VerifyBreach =>
         /\ verify_ret.ret \in {"true", "false"}
         /\ Len(vf.visited) = VerifyRingSize
         /\ verify_ret.ret = "false" <=> vf.c_prev # sig.c

C5_Witness ==
  /\ pc = "v_done" /\ scheme = "GGXG"
  /\ VerifyRingSize > 0 /\ VerifySizesMatch /\ ~VerifyKiInSubgroup
  /\ verify_ret.ret = "throw"

\* C6: when the key image is outside the main subgroup a verifier ends without accepting
\* and has absorbed nothing, derived no coefficient and computed no challenge.
C6_SubgroupFirst ==
  (pc \in {"v_coefficients", "v_aggregate", "v_walk", "v_done"} /\ ~VerifyKiInSubgroup) =>
    /\ pc = "v_done"
    /\ verify_ret.ret = "throw"
    /\ vf.hsc = <<>> /\ vf.hlog = <<>>
    /\ vf.input_hash = -1
    /\ vf.agg_coeff_0 = -1 /\ vf.agg_coeff_1 = -1 /\ vf.agg_coeff_2 = -1 /\ vf.agg_coeff_3 = -1
    /\ vf.c_prev = -1 /\ vf.visited = <<>>

C6_Witness ==
  /\ pc = "v_done" /\ scheme = "GG"
  /\ VerifyRingSize = 2 /\ VerifySizesMatch /\ ~VerifyKiInSubgroup
  /\ verify_ret.msg = "key image 0 does not belong to the main subgroup"

\* what the generate_ call was given
SignRingSize == Len(sa.ring)
SignIndexBad == SignRingSize = 0 \/ sa.secret_index >= SignRingSize
SignKiBad ==
  pt_mul(sa.secret_0_xp, hp(SecretElement.stealth_address)) # from_public_key(sa.ki)

\* C7: a generate_ call given an empty ring, an index out of range or a key image that
\* is not secret * Hp(ring[pi].stealth_address) ends by a raised error, the checks made
\* in this order; ring is only ever subscripted inside its range, and a failing call
\* has sampled no randomness.
C7_SignerPreconditions ==
  /\ \A i \in ring_reads : i < SignRingSize
  /\ (SignerRunning \/ pc = "s_done") =>
       IF SignRingSize = 0
       THEN /\ pc = "s_done" /\ sign_ret = [ret |-> "throw", msg |-> "ring size is zero"]
            /\ rng_calls = 0 /\ ring_reads = {}
       ELSE IF sa.secret_index >= SignRingSize
       THEN /\ pc = "s_done"
            /\ sign_ret = [ret |-> "throw", msg |-> "secret_index is out of range"]
            /\ rng_calls = 0 /\ ring_reads = {}
       ELSE IF SignKiBad
       THEN /\ pc = "s_done" /\ sign_ret = [ret |-> "throw", msg |-> "key image 0 mismatch"]
            /\ rng_calls = 0 /\ ring_reads = {sa.secret_index}
       ELSE sign_ret.ret # "throw"

C7_Witness ==
  /\ pc = "s_done" /\ scheme = "GGXG"
  /\ ~SignIndexBad /\ SignKiBad
  /\ sign_ret.msg = "key image 0 mismatch"

\* the first challenge of the signer, from alpha and ring[pi]
InitialChallenge ==
  IF scheme = "GG"
  THEN calc_hash(<<CRYPTO_HDS_CLSAG_GG_CHALLENGE, sg.input_hash,
                   to_public_key(pt_mul(sg.alpha, c_point_G)),
                   to_public_key(pt_mul(sg.alpha, hp(SecretElement.stealth_address)))>>)
  ELSE calc_hash(<<CRYPTO_HDS_CLSAG_GGXG_CHALLENGE, sg.input_hash,
                   to_public_key(pt_mul(sg.alpha_g, c_point_G)),
                   to_public_key(pt_mul(sg.alpha_g, hp(SecretElement.stealth_address))),
                   to_public_key(pt_mul(sg.alpha_x, c_point_X)),
                   to_public_key(pt_mul(sg.alpha_x, hp(SecretElement.stealth_address)))>>)

RingSizeOneSigner ==
  /\ sg.visited = <<>>
  /\ sig.c = InitialChallenge
  /\ IF scheme = "GG"
     THEN sig.r = <<sc_sub(sg.alpha,
                      sc_mul(sig.c, sc_add(sc_mul(sg.agg_coeff_0, sa.secret_0_xp),
                                           sc_mul(sg.agg_coeff_1, sa.secret_1_f))))>>
     ELSE /\ sig.r_g = <<sc_sub(sg.alpha_g,
                           sc_mul(sig.c, sc_add(sc_add(sc_mul(sg.agg_coeff_0, sa.secret_0_xp),
                                                       sc_mul(sg.agg_coeff_1, sa.secret_1_f)),
                                                sc_mul(sg.agg_coeff_3, sa.secret_3_q))))>>
          /\ sig.r_x = <<sc_sub(sg.alpha_x,
                           sc_mul(sig.c, sc_mul(sg.agg_coeff_2, sa.secret_2_x)))>>

\* C8 as stated: for a ring of one member the walk is empty, sig.c is the initial
\* challenge, the response is alpha - sig.c * w, and verification accepts.
C8_Stated ==
  (Signed /\ SignRingSize = 1 /\ tampered = "none") =>
    /\ RingSizeOneSigner
    /\ pc = "v_done" => (vf.c_prev = sig.c /\ verify_ret.ret = "true")

\* C8: for a ring of one member the signer's walk is empty, sig.c is the initial
\* challenge, the response is alpha - sig.c * w, and, when the member holds the public
\* keys of the secrets, the verifier's single step reproduces sig.c and accepts.
C8_RingSizeOne ==
  (Signed /\ SignRingSize = 1 /\ tampered = "none") =>
    /\ RingSizeOneSigner
    /\ (pc = "v_done" /\ ArgsKeysMatch(sa, scheme)) =>
         (Len(vf.visited) = 1 /\ vf.c_prev = sig.c /\ verify_ret.ret = "true")

C8_Witness ==
  /\ Signed /\ SignRingSize = 1 /\ sa.secret_index = 0 /\ scheme = "GGXG"
  /\ pc = "v_done" /\ ArgsKeysMatch(sa, scheme)
  /\ sg.visited = <<>> /\ verify_ret.ret = "true"

\* C9: each K_j stored in a signature decodes, after multiplication by 8, to the point
\* secret_j * Hp(ring[pi].stealth_address) the signer used; and the aggregate key image
\* the verifier builds from the stored values is the signer's.
KiBase == hp(SecretElement.stealth_address)
C9_KImageRoundTrip ==
  /\ ((SignerRunning /\ pc # "s_keyimages") \/ Signed) /\ tampered = "none" =>
       /\ modify_mul8(from_public_key(sig.K1)) = pt_mul(sa.secret_1_f, KiBase)
       /\ sg.K1 = pt_mul(sa.secret_1_f, KiBase)
       /\ scheme = "GGXG" =>
            /\ modify_mul8(from_public_key(sig.K2)) = pt_mul(sa.secret_2_x, KiBase)
            /\ sg.K2 = pt_mul(sa.secret_2_x, KiBase)
            /\ modify_mul8(from_public_key(sig.K3)) = pt_mul(sa.secret_3_q, KiBase)
            /\ sg.K3 = pt_mul(sa.secret_3_q, KiBase)
  /\ (Signed /\ tampered = "none" /\ pc \in {"v_walk", "v_done"}) =>
       IF scheme = "GG"
       THEN vf.K1 = sg.K1 /\ vf.W_key_image = sg.W_key_image
       ELSE /\ vf.K1 = sg.K1 /\ vf.K2 = sg.K2 /\ vf.K3 = sg.K3
            /\ vf.W_key_image_g = sg.W_key_image_g
            /\ vf.W_key_image_x = sg.W_key_image_x

C9_Witness ==
  /\ Signed /\ pc = "v_done" /\ tampered = "none" /\ scheme = "GGXG"
  /\ from_public_key(sig.K2) # sg.K2
  /\ vf.W_key_image_x = sg.W_key_image_x

\* C10: after a successful generate_ call the response vectors have one entry per ring
\* member, whatever the signature object held before; and a verifier goes past its
\* checks only with response vectors of that length.
C10_Shape ==
  /\ Signed =>
       IF scheme = "GG" THEN Len(sig.r) = SignRingSize
       ELSE Len(sig.r_g) = SignRingSize /\ Len(sig.r_x) = SignRingSize
  /\ (pc \in {"v_coefficients", "v_aggregate", "v_walk"} \/ vf.visited # <<>>) =>
       VerifySizesMatch

C10_Witness ==
  /\ Signed /\ scheme = "GGXG" /\ pc = "s_done"
  /\ Len(sig_entry.r_g) = 2 /\ Len(sig_entry.r_x) = 1
  /\ Len(sig.r_g) = 3 /\ Len(sig.r_x) = 3

\* the transcripts hashed for challenges, after those of input_hash and the coefficients
ChallengeBase == IF scheme = "GG" THEN 3 ELSE 5
SignerChallengeLog == SubSeq(sg.hlog, ChallengeBase + 1, Len(sg.hlog))
VerifierChallengeLog == SubSeq(vf.hlog, ChallengeBase + 1, Len(vf.hlog))

\* a transcript of exactly the CHALLENGE tag, input_hash and one position's commitments
IsChallengeTranscript(t, input_hash) ==
  IF scheme = "GG"
  THEN Len(t) = 4 /\ t[1] = CRYPTO_HDS_CLSAG_GG_CHALLENGE /\ t[2] = input_hash
  ELSE Len(t) = 6 /\ t[1] = CRYPTO_HDS_CLSAG_GGXG_CHALLENGE /\ t[2] = input_hash

\* the challenge a call held on entering ring position i
EnteringChallenge(entered, i) ==
  LET k == CHOOSE k \in 1 .. Len(entered) : entered[k].i = i IN entered[k].c
HasEntered(entered, i) == \E k \in 1 .. Len(entered) : entered[k].i = i

\* every challenge is the hash of one transcript of tag, input_hash and commitments
ChallengesFromOwnTranscript ==
  /\ \A k \in 1 .. Len(SignerChallengeLog) :
       IsChallengeTranscript(SignerChallengeLog[k], sg.input_hash)
  /\ \A k \in 1 .. Len(sg.entered) : sg.entered[k].c = calc_hash(SignerChallengeLog[k])
  /\ \A k \in 1 .. Len(VerifierChallengeLog) :
       IsChallengeTranscript(VerifierChallengeLog[k], vf.input_hash)
  /\ \A k \in 1 .. Len(vf.entered) :
       vf.entered[k].c = IF k = 1 THEN sig.c ELSE calc_hash(VerifierChallengeLog[k - 1])
  /\ (pc = "v_done" /\ verify_ret.ret # "throw") =>
       vf.c_prev = calc_hash(VerifierChallengeLog[vf.ring_size])

VerifierAgreesAt(i) ==
  HasEntered(vf.entered, i) =>
    /\ HasEntered(sg.entered, i)
    /\ EnteringChallenge(vf.entered, i) = EnteringChallenge(sg.entered, i)

BothDerived ==
  /\ Signed /\ tampered = "none"
  /\ pc \in {"v_aggregate", "v_walk", "v_done"} /\ verify_ret.ret # "throw"

DivEightConvention == va = VerifyArgsFor(sa)
FullScaleSupplied == va = FullScaleArgsFor(sa)

\* m, then each member's public keys, then C' [then T], then ki
InputItemsInOrder(t, a, enc_C, enc_T) ==
  LET per == IF scheme = "GG" THEN 2 ELSE 3
      n == Len(a.ring)
      tail == IF scheme = "GG" THEN <<enc_C, a.ki>> ELSE <<enc_C, enc_T, a.ki>>
  IN /\ Len(t) = 1 + per * n + Len(tail)
     /\ t[1] = a.m
     /\ \A k \in 1 .. n :
          /\ t[1 + per * (k - 1) + 1] = a.ring[k].stealth_address
          /\ t[1 + per * (k - 1) + 2] = a.ring[k].amount_commitment
          /\ scheme = "GGXG" => t[1 + per * (k - 1) + 3] = a.ring[k].concealing_point
     /\ SubSeq(t, 2 + per * n, Len(t)) = tail

SameCoefficients ==
  /\ sg.input_hash = vf.input_hash
  /\ sg.agg_coeff_0 = vf.agg_coeff_0 /\ sg.agg_coeff_1 = vf.agg_coeff_1
  /\ sg.agg_coeff_2 = vf.agg_coeff_2 /\ sg.agg_coeff_3 = vf.agg_coeff_3

TranscriptsAgree ==
  /\ InputItemsInOrder(sg.hlog[1], sa,
       to_public_key(pt_mul(c_scalar_1div8, sa.pseudo_out_amount_commitment)),
       to_public_key(pt_mul(c_scalar_1div8, sa.extended_amount_commitment)))
  /\ InputItemsInOrder(vf.hlog[1], va, va.pseudo_out_amount_commitment,
                       va.extended_amount_commitment)
  /\ sg.hlog[1] = vf.hlog[1]
  /\ SameCoefficients

VerifierPointsAreSigners ==
  /\ vf.C_pt = sa.pseudo_out_amount_commitment
  /\ scheme = "GGXG" => vf.T_pt = sa.extended_amount_commitment

SignedGGXG == Signed /\ scheme = "GGXG" /\ tampered = "none"
ClosingChallenge == EnteringChallenge(sg.entered, sa.secret_index)
ClosedG ==
  pt_add(pt_mul(sig.r_g[sa.secret_index + 1], c_point_G),
         pt_mul(ClosingChallenge, sg.W_pub_keys_g[sa.secret_index + 1]))
     = pt_mul(sg.alpha_g, c_point_G)
ClosedGKeyImage ==
  pt_add(pt_mul(sig.r_g[sa.secret_index + 1], KiBase),
         pt_mul(ClosingChallenge, sg.W_key_image_g))
     = pt_mul(sg.alpha_g, KiBase)
ClosedX ==
  pt_add(pt_mul(sig.r_x[sa.secret_index + 1], c_point_X),
         pt_mul(ClosingChallenge, sg.W_pub_keys_x[sa.secret_index + 1]))
     = pt_mul(sg.alpha_x, c_point_X)
ClosedXKeyImage ==
  pt_add(pt_mul(sig.r_x[sa.secret_index + 1], KiBase),
         pt_mul(ClosingChallenge, sg.W_key_image_x))
     = pt_mul(sg.alpha_x, KiBase)
ClosingResponses ==
  /\ sig.r_g[sa.secret_index + 1] = sc_sub(sg.alpha_g, sc_mul(ClosingChallenge, sg.w_sec_key_g))
  /\ sig.r_x[sa.secret_index + 1] = sc_sub(sg.alpha_x, sc_mul(ClosingChallenge, sg.w_sec_key_x))

\* the commitments the verifier hashed at the secret position, and the signer's first ones
VerifierPassedSecretPosition == HasEntered(vf.entered, sa.secret_index)
VerifierCommitmentsAtSecret == SubSeq(VerifierChallengeLog[sa.secret_index + 1], 3, 6)
SignerInitialCommitments == SubSeq(SignerChallengeLog[1], 3, 6)

\* C14 as stated: for every signature generate_CLSAG_GGXG returns, the four commitments
\* recomputed at the secret position from the closing responses are the signer's initial
\* commitments.
C14_Stated ==
  SignedGGXG =>
    /\ ClosingResponses
    /\ ClosedG /\ ClosedGKeyImage /\ ClosedX /\ ClosedXKeyImage
    /\ VerifierPassedSecretPosition => VerifierCommitmentsAtSecret = SignerInitialCommitments

\* C14: for every signature generate_CLSAG_GGXG returns, the closing responses are
\* alpha - c * w; the two key image commitments recomputed at the secret position are the
\* signer's initial ones, and so are the two public key commitments when ring[pi] holds
\* the public keys of the secrets.
C14_RingClosure ==
  SignedGGXG =>
    /\ ClosingResponses
    /\ ClosedGKeyImage /\ ClosedXKeyImage
    /\ VerifierPassedSecretPosition =>
         /\ VerifierCommitmentsAtSecret[2] = SignerInitialCommitments[2]
         /\ VerifierCommitmentsAtSecret[4] = SignerInitialCommitments[4]
    /\ ArgsKeysMatch(sa, "GGXG") =>
         /\ ClosedG /\ ClosedX
         /\ VerifierPassedSecretPosition =>
              VerifierCommitmentsAtSecret = SignerInitialCommitments

C14_Witness ==
  /\ SignedGGXG /\ ArgsKeysMatch(sa, "GGXG") /\ pc = "v_done"
  /\ SignRingSize = 3 /\ sa.secret_index = 1
  /\ ClosedG /\ ClosedGKeyImage /\ ClosedX /\ ClosedXKeyImage
  /\ VerifierCommitmentsAtSecret = SignerInitialCommitments

\* the signer's transcript whose hash is the challenge entering ring position i
TranscriptBefore(i) ==
  LET k == CHOOSE k \in 1 .. Len(sg.entered) : sg.entered[k].i = i IN SignerChallengeLog[k]

\* C15: a successful generate_ call has assigned sig.c exactly once, and sig.c is the
\* challenge entering ring position 0: the c_prev held when the walk reached i = 0 if the
\* secret index is not 0, the c_prev that closes the ring if it is 0.
C15_RecordsC0 ==
  /\ (Signed /\ tampered = "none") =>
       /\ sg.c_writes = 1
       /\ HasEntered(sg.entered, 0)
       /\ sig.c = EnteringChallenge(sg.entered, 0)
       /\ sig.c = calc_hash(TranscriptBefore(0))
       /\ IF sa.secret_index = 0
          THEN sig.c = sg.c_prev /\ 0 \notin {sg.visited[k] : k \in 1 .. Len(sg.visited)}
          ELSE \E k \in 1 .. Len(sg.visited) :
                 sg.visited[k] = 0 /\ sig.c = calc_hash(SignerChallengeLog[k])
  /\ (pc = "s_walk" /\ tampered = "none") =>
       sg.c_writes = (IF 0 \in {sg.visited[k] : k \in 1 .. Len(sg.visited)} THEN 1 ELSE 0)

C15_Witness ==
  /\ Signed /\ pc = "s_done" /\ scheme = "GG" /\ SignRingSize = 3 /\ sa.secret_index = 2
  /\ sig_entry.c = 3 /\ sg.visited = <<0, 1>>
  /\ sg.c_writes = 1 /\ sig.c = EnteringChallenge(sg.entered, 0) /\ sig.c # sg.c_prev

\* the response vectors of the caller's signature object, per layer
Responses == IF scheme = "GG" THEN [g |-> sig.r, x |-> <<>>] ELSE [g |-> sig.r_g, x |-> sig.r_x]

\* the first commitment hashed by the signer at its k-th walk step, from the sampled values
WalkCommitmentFromSampled(k) ==
  LET i == sg.visited[k]
      W == IF scheme = "GG" THEN sg.W_pub_keys[i + 1] ELSE sg.W_pub_keys_g[i + 1]
  IN to_public_key(pt_add(pt_mul(sg.sampled.g[i + 1], c_point_G), pt_mul(sg.entered[k].c, W)))

WalkXCommitmentFromSampled(k) ==
  LET i == sg.visited[k]
  IN to_public_key(pt_add(pt_mul(sg.sampled.x[i + 1], c_point_X),
                          pt_mul(sg.entered[k].c, sg.W_pub_keys_x[i + 1])))

\* C16: the signer's walk runs n - 1 iterations over pi+1, pi+2, ... (mod n), visiting each
\* index other than pi once and never pi; the responses stay as sampled during the walk,
\* and afterwards only those at index pi are overwritten, so every other response of the
\* output is the sampled value that entered that position's commitments.
C16_WalkAndFakeResponses ==
  /\ (pc = "s_walk" /\ tampered = "none") =>
       /\ Responses = sg.sampled
       /\ Len(sg.visited) = sg.j /\ sg.j <= SignRingSize - 1
       /\ \A k \in 1 .. Len(sg.visited) : sg.visited[k] = (sa.secret_index + k) % SignRingSize
  /\ (Signed /\ tampered = "none") =>
       /\ Len(sg.visited) = SignRingSize - 1
       /\ \A k \in 1 .. Len(sg.visited) :
            /\ sg.visited[k] = (sa.secret_index + k) % SignRingSize
            /\ sg.visited[k] # sa.secret_index
            /\ SignerChallengeLog[k + 1][3] = WalkCommitmentFromSampled(k)
            /\ scheme = "GGXG" => SignerChallengeLog[k + 1][5] = WalkXCommitmentFromSampled(k)
       /\ \A i \in 0 .. (SignRingSize - 1) :
            i # sa.secret_index =>
              /\ Cardinality({k \in 1 .. Len(sg.visited) : sg.visited[k] = i}) = 1
              /\ Responses.g[i + 1] = sg.sampled.g[i + 1]
              /\ scheme = "GGXG" => Responses.x[i + 1] = sg.sampled.x[i + 1]
       /\ Len(Responses.g) = Len(sg.sampled.g) /\ Len(Responses.x) = Len(sg.sampled.x)

C16_Witness ==
  /\ Signed /\ pc = "s_done" /\ scheme = "GGXG" /\ SignRingSize = 3 /\ sa.secret_index = 1
  /\ sg.visited = <<2, 0>>
  /\ sig.r_g[1] = sg.sampled.g[1] /\ sig.r_g[3] = sg.sampled.g[3]
  /\ sig.r_x[1] = sg.sampled.x[1] /\ sig.r_x[3] = sg.sampled.x[3]
  /\ sig.r_g[2] # sg.sampled.g[2] /\ sig.r_x[2] # sg.sampled.x[2]

\* the generate_ call was given arguments that fail one of its three checks
SignPreconditionFails == IF SignIndexBad THEN TRUE ELSE SignKiBad

\* C17: a generate_ call that fails a precondition (empty ring, index out of range, key
\* image mismatch) leaves the caller's signature object exactly as it was on entry: every
\* check precedes the first write.
C17_NoPartialOutput ==
  /\ (SignPreconditionFails /\ tampered = "none") => sig = sig_entry
  /\ sign_ret.ret = "throw" => (sig = sig_entry /\ SignPreconditionFails)
  /\ pc = "s_keyimages" => sig = sig_entry

C17_Witness ==
  /\ pc = "s_done" /\ sign_ret = [ret |-> "throw", msg |-> "key image 0 mismatch"]
  /\ scheme = "GGXG" /\ ~SignIndexBad /\ SignKiBad
  /\ sig_entry # EmptySig /\ sig = sig_entry

\* the signer has passed its checks and computed its aggregates
SignerAggregated == (pc \in {"s_commit", "s_sample", "s_walk"} \/ Signed) /\ tampered = "none"

\* C18: once a signer has passed its checks, each aggregate key image is the aggregate
\* secret of its layers times ki_base = Hp(ring[pi].stealth_address): in GG
\* W_ki = (mu0*secret_x + mu1*secret_f) * ki_base; in GGXG
\* Wg_ki = (mu0*x_p + mu1*f + mu3*q) * ki_base, without K2 and mu2, and
\* Wx_ki = (mu2*x) * ki_base, from K2 alone.
C18_AggregateKeyImage ==
  SignerAggregated =>
    IF scheme = "GG"
    THEN /\ sg.w_sec_key = sc_add(sc_mul(sg.agg_coeff_0, sa.secret_0_xp),
                                  sc_mul(sg.agg_coeff_1, sa.secret_1_f))
         /\ sg.W_key_image = pt_mul(sg.w_sec_key, KiBase)
    ELSE /\ sg.w_sec_key_g = sc_add(sc_add(sc_mul(sg.agg_coeff_0, sa.secret_0_xp),
                                           sc_mul(sg.agg_coeff_1, sa.secret_1_f)),
                                    sc_mul(sg.agg_coeff_3, sa.secret_3_q))
         /\ sg.w_sec_key_x = sc_mul(sg.agg_coeff_2, sa.secret_2_x)
         /\ sg.W_key_image_g = pt_mul(sg.w_sec_key_g, KiBase)
         /\ sg.W_key_image_x = pt_mul(sg.w_sec_key_x, KiBase)
         /\ sg.W_key_image_g =
              pt_add(pt_add(pt_mul(sg.agg_coeff_0, from_public_key(sa.ki)),
                            pt_mul(sg.agg_coeff_1, sg.K1)),
                     pt_mul(sg.agg_coeff_3, sg.K3))
         /\ sg.W_key_image_x = pt_mul(sg.agg_coeff_2, sg.K2)

C18_Witness ==
  /\ pc = "s_commit" /\ scheme = "GG" /\ SignRingSize = 2 /\ sa.secret_index = 1
  /\ sa.secret_1_f = 9
  /\ sg.W_key_image = pt_mul(sg.w_sec_key, KiBase) /\ sg.W_key_image # c_point_0

====
